---- MODULE Spec2Model ----
(***************************************************************************)
(* Model of homework.py: the fitness-tracker calculation module.           *)
(*                                                                         *)
(* Numbers are exact rationals <<numerator, denominator>> (denominator     *)
(* > 0, lowest terms).  Python ints and floats are both carried this way;  *)
(* the rounding of IEEE doubles is abstracted to exact arithmetic.         *)
(* Python's None is the empty tuple.                                       *)
(***************************************************************************)
EXTENDS Integers, Sequences, FiniteSets, TLC

VARIABLES classes, obj, call, ret, first, calls

vars == <<classes, obj, call, ret, first, calls>>

(* ---------------------------- bounds ----------------------------------- *)

\* longest parameter list handed to read_package
MaxLen == 6

\* method calls made on one instance before it is dropped
MaxCalls == 3

(* ------------------------- rational arithmetic ------------------------- *)

Abs(x) == IF x < 0 THEN -x ELSE x

RECURSIVE GCD(_, _)
GCD(a, b) == IF b = 0 THEN a ELSE GCD(b, a % b)

Norm(q) ==
    LET s == IF q[2] < 0 THEN -1 ELSE 1
        g == GCD(Abs(q[1]), Abs(q[2]))
    IN  <<(s * q[1]) \div g, (s * q[2]) \div g>>

R(n) == <<n, 1>>

RAdd(a, b) == Norm(<<a[1] * b[2] + b[1] * a[2], a[2] * b[2]>>)
RSub(a, b) == Norm(<<a[1] * b[2] - b[1] * a[2], a[2] * b[2]>>)
RMul(a, b) == Norm(<<a[1] * b[1], a[2] * b[2]>>)
RLe(a, b)  == a[1] * b[2] <= b[1] * a[2]
RLt(a, b)  == a[1] * b[2] < b[1] * a[2]

(* ------------------------- values and results -------------------------- *)

None == <<>>

NoExc == [type |-> "none", msg |-> "none", nums |-> <<>>]

Ok(v) == [status |-> "ok", exc |-> NoExc, val |-> v]

Raise(type, msg, nums) ==
    [status |-> "raise",
     exc    |-> [type |-> type, msg |-> msg, nums |-> nums],
     val    |-> None]

\* a / b: ZeroDivisionError when b is zero
TrueDiv(a, b) ==
    IF b[1] = 0
    THEN Raise("ZeroDivisionError", "division by zero", <<>>)
    ELSE Ok(Norm(<<a[1] * b[2], a[2] * b[1]>>))

\* a // b: floor of the quotient, ZeroDivisionError when b is zero
FloorDiv(a, b) ==
    IF b[1] = 0
    THEN Raise("ZeroDivisionError", "division by zero", <<>>)
    ELSE LET q == Norm(<<a[1] * b[2], a[2] * b[1]>>)
         IN  Ok(R(q[1] \div q[2]))

(* ------------------------- class attributes ---------------------------- *)

ClassAttrs ==
    [Training      |-> [M_IN_KM |-> R(1000), LEN_STEP |-> <<13, 20>>],
     Running       |-> [M_IN_H |-> R(60), LEN_STEP |-> <<13, 20>>,
                        CF_CAL1 |-> R(18), CF_CAL2 |-> R(20)],
     SportsWalking |-> [M_IN_H |-> R(60)],
     Swimming      |-> [LEN_STEP |-> <<69, 50>>]]

\* attribute lookup self.NAME: the instance's class first, then Training
Attr(self, name) ==
    IF name \in DOMAIN classes[self.cls]
    THEN classes[self.cls][name]
    ELSE classes["Training"][name]

(* ---------------------------- constructors ----------------------------- *)

NoObject == [cls |-> "NoObject"]

Training_init(d) ==
    [cls |-> "Training", action |-> d[1], duration |-> d[2], weight |-> d[3]]

Running_init(d) ==
    [cls |-> "Running", action |-> d[1], duration |-> d[2], weight |-> d[3],
     training_type |-> "Running"]

SportsWalking_init(d) ==
    [cls |-> "SportsWalking", action |-> d[1], duration |-> d[2],
     weight |-> d[3], height |-> d[4], training_type |-> "SportsWalking"]

Swimming_init(d) ==
    [cls |-> "Swimming", action |-> d[1], duration |-> d[2], weight |-> d[3],
     length_pool |-> d[4], count_pool |-> d[5], training_type |-> "Swimming"]

\* number of positional parameters of cls.__init__, self excluded
Arity(cls) ==
    CASE cls = "Training"      -> 3
      [] cls = "Running"       -> 3
      [] cls = "SportsWalking" -> 4
      [] cls = "Swimming"      -> 5

\* the call cls(*d): Python binds the arguments before __init__ runs
ConstructLax(cls, d) ==
    IF Len(d) < Arity(cls)
    THEN Raise("TypeError", "missing required positional arguments",
               <<Arity(cls) - Len(d)>>)
    ELSE Ok(CASE cls = "Training"      -> Training_init(d)
              [] cls = "Running"       -> Running_init(d)
              [] cls = "SportsWalking" -> SportsWalking_init(d)
              [] cls = "Swimming"      -> Swimming_init(d))

Construct(cls, d) ==
    IF Len(d) < Arity(cls)
    THEN Raise("TypeError", "missing required positional arguments",
               <<Arity(cls) - Len(d)>>)
    ELSE IF Len(d) > Arity(cls)
    THEN Raise("TypeError", "takes positional arguments but more were given",
               <<Arity(cls) + 1, Len(d) + 1>>)
    ELSE Ok(CASE cls = "Training"      -> Training_init(d)
              [] cls = "Running"       -> Running_init(d)
              [] cls = "SportsWalking" -> SportsWalking_init(d)
              [] cls = "Swimming"      -> Swimming_init(d))

\* base_data.get(workout_type): None for a key that is absent
base_data(workout_type) ==
    CASE workout_type = "SWM" -> "Swimming"
      [] workout_type = "RUN" -> "Running"
      [] workout_type = "WLK" -> "SportsWalking"
      [] OTHER                -> "None"

read_package_result(workout_type, d) ==
    IF base_data(workout_type) = "None"
    THEN Raise("TypeError", "NoneType object is not callable", <<>>)
    ELSE Construct(base_data(workout_type), d)

(* ------------------------------ methods -------------------------------- *)

InfoMessage(training_type, duration, distance, speed, calories) ==
    [training_type |-> training_type, duration |-> duration,
     distance |-> distance, speed |-> speed, calories |-> calories]

\* Training.LEN_STEP where the code reads self.LEN_STEP
Training_get_distance_BaseStep(self) ==
    TrueDiv(RMul(self.action, classes["Training"]["LEN_STEP"]),
            Attr(self, "M_IN_KM"))

\* "-" where the code multiplies
Training_get_distance_Minus(self) ==
    TrueDiv(RSub(self.action, Attr(self, "LEN_STEP")), Attr(self, "M_IN_KM"))

Training_get_distance(self) ==
    TrueDiv(RMul(self.action, Attr(self, "LEN_STEP")), Attr(self, "M_IN_KM"))

Training_get_mean_speed(self) ==
    LET dist == Training_get_distance(self)
    IN  IF dist.status # "ok" THEN dist
        ELSE TrueDiv(dist.val, self.duration)

\* the inherited formula where Swimming overrides it
Swimming_get_mean_speed_Inherited(self) ==
    LET dist == Training_get_distance(self)
    IN  IF dist.status # "ok" THEN dist
        ELSE TrueDiv(dist.val, self.duration)

Swimming_get_mean_speed(self) ==
    LET perkm == TrueDiv(RMul(self.length_pool, self.count_pool),
                         Attr(self, "M_IN_KM"))
    IN  IF perkm.status # "ok" THEN perkm
        ELSE TrueDiv(perkm.val, self.duration)

\* self.get_mean_speed(): Swimming overrides it
get_mean_speed_of(self) ==
    IF self.cls = "Swimming"
    THEN Swimming_get_mean_speed(self)
    ELSE Training_get_mean_speed(self)

\* the body is "pass": the call returns None
Training_get_spent_calories(self) == Ok(None)

\* the parentheses around CF_CAL1 * speed - CF_CAL2 left out
Running_get_spent_calories_NoParens(self) ==
    LET speed == get_mean_speed_of(self)
    IN  IF speed.status # "ok" THEN speed
        ELSE LET perkm == TrueDiv(RMul(Attr(self, "CF_CAL2"), self.weight),
                                  Attr(self, "M_IN_KM"))
             IN  IF perkm.status # "ok" THEN perkm
                 ELSE Ok(RSub(RMul(Attr(self, "CF_CAL1"), speed.val),
                              RMul(perkm.val,
                                   RMul(self.duration,
                                        Attr(self, "M_IN_H")))))

Running_get_spent_calories(self) ==
    LET speed == get_mean_speed_of(self)
    IN  IF speed.status # "ok" THEN speed
        ELSE LET perkm == TrueDiv(
                     RMul(RSub(RMul(Attr(self, "CF_CAL1"), speed.val),
                               Attr(self, "CF_CAL2")),
                          self.weight),
                     Attr(self, "M_IN_KM"))
             IN  IF perkm.status # "ok" THEN perkm
                 ELSE Ok(RMul(perkm.val,
                              RMul(self.duration, Attr(self, "M_IN_H"))))

\* "/" where the code has "//"
SportsWalking_get_spent_calories_TrueDiv(self) ==
    LET cf_calorie_1 == <<7, 200>>
        cf_calorie_2 == <<29, 1000>>
        speed == get_mean_speed_of(self)
    IN  IF speed.status # "ok" THEN speed
        ELSE LET fl == TrueDiv(RMul(speed.val, speed.val), self.height)
             IN  IF fl.status # "ok" THEN fl
                 ELSE Ok(RMul(RAdd(RMul(cf_calorie_1, self.weight),
                                   RMul(RMul(fl.val, cf_calorie_2),
                                        self.weight)),
                              RMul(self.duration, Attr(self, "M_IN_H"))))

SportsWalking_get_spent_calories(self) ==
    LET cf_calorie_1 == <<7, 200>>
        cf_calorie_2 == <<29, 1000>>
        speed == get_mean_speed_of(self)
    IN  IF speed.status # "ok" THEN speed
        ELSE LET fl == FloorDiv(RMul(speed.val, speed.val), self.height)
             IN  IF fl.status # "ok" THEN fl
                 ELSE Ok(RMul(RAdd(RMul(cf_calorie_1, self.weight),
                                   RMul(RMul(fl.val, cf_calorie_2),
                                        self.weight)),
                              RMul(self.duration, Attr(self, "M_IN_H"))))

\* "-" where the code adds swcf_1
Swimming_get_spent_calories_Minus(self) ==
    LET swcf_1 == <<11, 10>>
        swcf_2 == R(2)
        speed == get_mean_speed_of(self)
    IN  IF speed.status # "ok" THEN speed
        ELSE Ok(RMul(RMul(RSub(speed.val, swcf_1), swcf_2), self.weight))

Swimming_get_spent_calories(self) ==
    LET swcf_1 == <<11, 10>>
        swcf_2 == R(2)
        speed == get_mean_speed_of(self)
    IN  IF speed.status # "ok" THEN speed
        ELSE Ok(RMul(RMul(RAdd(speed.val, swcf_1), swcf_2), self.weight))

\* self.get_spent_calories(): every variant overrides it
get_spent_calories_of(self) ==
    CASE self.cls = "Running"       -> Running_get_spent_calories(self)
      [] self.cls = "SportsWalking" -> SportsWalking_get_spent_calories(self)
      [] self.cls = "Swimming"      -> Swimming_get_spent_calories(self)
      [] OTHER                      -> Training_get_spent_calories(self)

\* arguments are evaluated left to right; the first exception propagates
Training_show_training_info(self) ==
    LET dist  == Training_get_distance(self)
        speed == get_mean_speed_of(self)
        cal   == get_spent_calories_of(self)
    IN  IF dist.status # "ok" THEN dist
        ELSE IF speed.status # "ok" THEN speed
        ELSE IF cal.status # "ok" THEN cal
        ELSE Ok(InfoMessage(self.cls, self.duration,
                            dist.val, speed.val, cal.val))

(* ------------------------------ inputs --------------------------------- *)

Codes     == {"RUN", "WLK", "SWM", "XYZ"}
Actions   == {R(-1000), R(0), R(720), R(9000), R(15000)}
Durations == {R(0), <<1, 2>>, R(1), R(2)}
Weights   == {R(75), R(80)}
Extras1   == {R(25), R(30), R(180)}
Extras2   == {R(0), R(40)}

\* the first n of (action, duration, weight, extra1, extra2, 1, 1, ...)
Params(a, d, w, e1, e2, n) ==
    [i \in 1..n |-> IF i > 5 THEN R(1) ELSE <<a, d, w, e1, e2>>[i]]

(* ------------------------------ actions -------------------------------- *)

NoCall == [op |-> "none", code |-> "none", data |-> <<>>]

NoRet == [op |-> "none", status |-> "none", exc |-> NoExc, val |-> None]

Returned(op, r) ==
    [op |-> op, status |-> r.status, exc |-> r.exc, val |-> r.val]

Init ==
    /\ classes = ClassAttrs
    /\ obj = NoObject
    /\ call = NoCall
    /\ ret = NoRet
    /\ first = NoRet
    /\ calls = 0

\* training = read_package(workout_type, data)
read_package ==
    /\ call = NoCall
    /\ \E code \in Codes, a \in Actions, d \in Durations, w \in Weights,
          e1 \in Extras1, e2 \in Extras2, n \in 0..MaxLen :
         LET data == Params(a, d, w, e1, e2, n)
             r    == read_package_result(code, data)
         IN  /\ call' = [op |-> "read_package", code |-> code, data |-> data]
             /\ obj' = IF r.status = "ok" THEN r.val ELSE NoObject
             /\ ret' = Returned("read_package", [r EXCEPT !.val = None])
    /\ first' = NoRet
    /\ calls' = 0
    /\ UNCHANGED classes

\* training = Training(action, duration, weight): the base class directly
Training_new ==
    /\ call = NoCall
    /\ \E a \in Actions, d \in Durations, w \in Weights :
         LET data == <<a, d, w>>
             r    == Construct("Training", data)
         IN  /\ call' = [op |-> "Training", code |-> "none", data |-> data]
             /\ obj' = r.val
             /\ ret' = Returned("Training", [r EXCEPT !.val = None])
    /\ first' = NoRet
    /\ calls' = 0
    /\ UNCHANGED classes

get_distance ==
    /\ obj # NoObject
    /\ calls < MaxCalls
    /\ ret' = Returned("get_distance", Training_get_distance(obj))
    /\ calls' = calls + 1
    /\ UNCHANGED <<classes, obj, call, first>>

get_mean_speed ==
    /\ obj # NoObject
    /\ calls < MaxCalls
    /\ ret' = Returned("get_mean_speed", get_mean_speed_of(obj))
    /\ calls' = calls + 1
    /\ UNCHANGED <<classes, obj, call, first>>

get_spent_calories ==
    /\ obj # NoObject
    /\ calls < MaxCalls
    /\ ret' = Returned("get_spent_calories", get_spent_calories_of(obj))
    /\ calls' = calls + 1
    /\ UNCHANGED <<classes, obj, call, first>>

\* the duration converted to minutes in place while the report is built
show_training_info_InPlace ==
    /\ obj # NoObject
    /\ calls < MaxCalls
    /\ ret' = Returned("show_training_info", Training_show_training_info(obj))
    /\ first' = IF first.op = "none" THEN ret' ELSE first
    /\ calls' = calls + 1
    /\ obj' = [obj EXCEPT !.duration = RMul(obj.duration, R(60))]
    /\ UNCHANGED <<classes, call>>

show_training_info ==
    /\ obj # NoObject
    /\ calls < MaxCalls
    /\ ret' = Returned("show_training_info", Training_show_training_info(obj))
    /\ first' = IF first.op = "none" THEN ret' ELSE first
    /\ calls' = calls + 1
    /\ UNCHANGED <<classes, obj, call>>

\* the caller moves on to its next package: training is rebound, or the
\* exception of a failed call has been handled
Discard ==
    /\ call # NoCall
    /\ obj' = NoObject
    /\ call' = NoCall
    /\ ret' = NoRet
    /\ first' = NoRet
    /\ calls' = 0
    /\ UNCHANGED classes

Next ==
    \/ read_package
    \/ Training_new
    \/ get_distance
    \/ get_mean_speed
    \/ get_spent_calories
    \/ show_training_info
    \/ Discard

Spec == Init /\ [][Next]_vars

(* ===================== properties of the dispatcher ==================== *)

Known == {"RUN", "WLK", "SWM"}

Variants == {"Running", "SportsWalking", "Swimming"}

\* the arity and the class the documentation gives for each known code
DocArity(code) == CASE code = "RUN" -> 3 [] code = "WLK" -> 4 [] code = "SWM" -> 5

DocClass(code) ==
    CASE code = "RUN" -> "Running"
      [] code = "WLK" -> "SportsWalking"
      [] code = "SWM" -> "Swimming"

\* C1: for a code outside RUN, WLK, SWM read_package fails with the
\* dedicated error UnknownWorkoutType, an outcome of another kind than the
\* failure of a call with the wrong number of parameters, and no instance
\* is constructed.
C1_UnknownCodeDedicatedError ==
    (call.op = "read_package" /\ call.code \notin Known) =>
        /\ obj = NoObject
        /\ ret.status = "raise"
        /\ ret.exc.type = "UnknownWorkoutType"
        /\ ret.exc.type # Construct("Running", <<>>).exc.type

C3_BaseCaloriesNotImplemented ==
    obj.cls = "Training" =>
        /\ (ret.op = "get_spent_calories" =>
                /\ ret.status = "raise"
                /\ ret.exc.type = "NotImplementedError")
        /\ (ret.op = "show_training_info" => ret.status = "raise")

(* ======================= properties of the formulas ==================== *)

Positive(x) == x[1] > 0

NonNegative(x) == x[1] >= 0

Approx(x, target, tol) ==
    /\ RLe(RSub(x, target), tol)
    /\ RLe(RSub(target, x), tol)

IsRunSample ==
    /\ obj.cls = "Running"
    /\ obj.action = R(15000)
    /\ obj.duration = R(1)
    /\ obj.weight = R(75)

\* C4 as stated: Running(15000, 1, 75) has distance 9.75, mean speed 9.75
\* and about 653.85 calories.
C4_RunSample653 ==
    IsRunSample =>
        /\ (ret.op = "get_distance" => ret.val = <<39, 4>>)
        /\ (ret.op = "get_mean_speed" => ret.val = <<39, 4>>)
        /\ (ret.op = "get_spent_calories" =>
                Approx(ret.val, <<13077, 20>>, <<1, 100>>))

\* C4 amended: Running(15000, 1, 75) has distance 9.75, mean speed 9.75 and
\* (18 * 9.75 - 20) * 75 / 1000 * 1 * 60 = 699.75 calories.
C4_RunSample699 ==
    IsRunSample =>
        /\ (ret.op = "get_distance" => ret.val = <<39, 4>>)
        /\ (ret.op = "get_mean_speed" => ret.val = <<39, 4>>)
        /\ (ret.op = "get_spent_calories" => ret.val = <<2799, 4>>)
        /\ (ret.op = "show_training_info" =>
                /\ ret.val.distance = <<39, 4>>
                /\ ret.val.speed = <<39, 4>>
                /\ ret.val.calories = <<2799, 4>>)

C4_Witness == IsRunSample /\ ret.op = "get_spent_calories"

IsWalk == obj.cls = "SportsWalking"

\* the walking speed, squared, written out from the documented formulas
WalkSpeedSq ==
    LET sp == Norm(<<obj.action[1] * 13 * obj.duration[2],
                     obj.action[2] * 20000 * obj.duration[1]>>)
    IN  <<sp[1] * sp[1], sp[2] * sp[2]>>

\* floor(speed^2 / height)
WalkFloor ==
    (WalkSpeedSq[1] * obj.height[2]) \div (WalkSpeedSq[2] * obj.height[1])

ValidWalk ==
    /\ IsWalk
    /\ Positive(obj.duration)
    /\ Positive(obj.weight)
    /\ Positive(obj.height)

\* C5: for a valid walking sample the calories are
\* (0.035 * weight + floor(speed^2 / height) * 0.029 * weight) * duration * 60
\* with floor division; when speed^2 < height they are
\* 0.035 * weight * duration * 60, and 9000, 1, 75, 180 gives floor 0.
C5_WalkingFloorFormula ==
    (ValidWalk /\ ret.op = "get_spent_calories") =>
        /\ ret.status = "ok"
        /\ ret.val = RMul(RAdd(RMul(<<35, 1000>>, obj.weight),
                               RMul(RMul(R(WalkFloor), <<29, 1000>>),
                                    obj.weight)),
                          RMul(obj.duration, R(60)))
        /\ (RLt(WalkSpeedSq, obj.height) =>
                ret.val = RMul(RMul(<<35, 1000>>, obj.weight),
                               RMul(obj.duration, R(60))))
        /\ ((/\ obj.action = R(9000) /\ obj.duration = R(1)
             /\ obj.weight = R(75) /\ obj.height = R(180)) =>
                WalkFloor = 0 /\ ret.val = <<315, 2>>)

\* a walking sample whose quotient speed^2 / height is above 1 and not whole
C5_Witness ==
    /\ ValidWalk
    /\ ret.op = "get_spent_calories"
    /\ WalkFloor >= 1
    /\ R(WalkFloor) # Norm(<<WalkSpeedSq[1] * obj.height[2],
                             WalkSpeedSq[2] * obj.height[1]>>)

IsSwim == obj.cls = "Swimming"

\* poolLength * lapCount / 1000 / duration
SwimSpeed ==
    Norm(<<obj.length_pool[1] * obj.count_pool[1] * obj.duration[2],
           obj.length_pool[2] * obj.count_pool[2] * 1000 * obj.duration[1]>>)

IsSwimSample ==
    /\ IsSwim
    /\ obj.action = R(720)
    /\ obj.duration = R(1)
    /\ obj.weight = R(80)
    /\ obj.length_pool = R(25)
    /\ obj.count_pool = R(40)

\* C6: for a swimming sample with duration > 0 the mean speed is
\* poolLength * lapCount / 1000 / duration, whatever the action count, and
\* the calories are (speed + 1.1) * 2 * weight; 720, 1, 80, 25, 40 gives
\* speed 1.0 and calories 336.0.
C6_SwimmingFormulas ==
    (IsSwim /\ Positive(obj.duration)) =>
        /\ (ret.op = "get_mean_speed" =>
                ret.status = "ok" /\ ret.val = SwimSpeed)
        /\ (ret.op = "get_spent_calories" =>
                /\ ret.status = "ok"
                /\ ret.val = RMul(RMul(RAdd(SwimSpeed, <<11, 10>>), R(2)),
                                  obj.weight))
        /\ (IsSwimSample =>
                /\ (ret.op = "get_mean_speed" => ret.val = R(1))
                /\ (ret.op = "get_spent_calories" => ret.val = R(336)))

C6_Witness == IsSwimSample /\ ret.op = "get_mean_speed" /\ ret.val = R(1)

\* the step length the documentation gives for each variant
DocStep == IF IsSwim THEN <<138, 100>> ELSE <<65, 100>>

DocDistance == RMul(RMul(obj.action, DocStep), <<1, 1000>>)

\* C7: for every variant instance the distance is action * step / 1000 with
\* step 0.65 for Running and SportsWalking and 1.38 for Swimming, and for
\* Running and SportsWalking with duration > 0 the mean speed is
\* distance / duration.
C7_DistanceAndSpeed ==
    obj.cls \in Variants =>
        /\ (ret.op = "get_distance" =>
                ret.status = "ok" /\ ret.val = DocDistance)
        /\ ((/\ obj.cls \in {"Running", "SportsWalking"}
             /\ Positive(obj.duration)
             /\ ret.op = "get_mean_speed") =>
                /\ ret.status = "ok"
                /\ ret.val = Norm(<<DocDistance[1] * obj.duration[2],
                                    DocDistance[2] * obj.duration[1]>>))

C7_Witness ==
    /\ IsSwim
    /\ obj.action = R(720)
    /\ ret.op = "get_distance"
    /\ ret.val = <<621, 625>>

\* C8: while one variant instance is in use, whatever calls were made on it
\* before, every show_training_info returns what the first one returned, and
\* no field of the instance and no class coefficient changes.
C8_ShowTrainingInfoPure ==
    [][(call' = call /\ obj.cls \in Variants) =>
          /\ obj' = obj
          /\ classes' = classes
          /\ ((ret'.op = "show_training_info" /\ first.op # "none") =>
                 /\ ret'.status = first.status
                 /\ ret'.exc = first.exc
                 /\ (ret'.status = "ok" => ret'.val = first.val))]_vars

\* a report returned again after at least two earlier calls
C8_Witness ==
    /\ obj.cls \in Variants
    /\ calls >= 3
    /\ ret.op = "show_training_info"
    /\ ret.status = "ok"
    /\ first = ret

NonNegativeInputs ==
    /\ obj.cls \in Variants
    /\ NonNegative(obj.action)
    /\ NonNegative(obj.weight)
    /\ (IsSwim => NonNegative(obj.length_pool) /\ NonNegative(obj.count_pool))
    /\ Positive(obj.duration)

\* C9: with non-negative inputs and duration > 0 the distance and the mean
\* speed of every variant, the Swimming override included, are >= 0.
C9_DistanceSpeedNonNegative ==
    (NonNegativeInputs /\ ret.op \in {"get_distance", "get_mean_speed"}) =>
        ret.status = "ok" /\ NonNegative(ret.val)

C9_Witness ==
    /\ NonNegativeInputs
    /\ IsSwim
    /\ obj.action = R(0)
    /\ ret.op = "get_mean_speed"
    /\ Positive(ret.val)

ValidSample ==
    /\ obj.cls \in Variants
    /\ NonNegative(obj.action)
    /\ Positive(obj.duration)
    /\ Positive(obj.weight)
    /\ (IsWalk => Positive(obj.height))
    /\ (IsSwim => Positive(obj.length_pool) /\ NonNegative(obj.count_pool))

\* C10 as stated: the calories of the report of every valid sample are >= 0.
C10_CaloriesNonNegative ==
    (ValidSample /\ ret.op = "show_training_info") =>
        ret.status = "ok" /\ NonNegative(ret.val.calories)

\* C10 amended: the calories of the report of every valid SportsWalking and
\* Swimming sample are >= 0; those of a valid Running sample are >= 0 exactly
\* when its mean speed is at least 20/18 km/h, and negative below it.
C10_CaloriesSign ==
    (ValidSample /\ ret.op = "show_training_info") =>
        /\ ret.status = "ok"
        /\ IF obj.cls = "Running"
           THEN NonNegative(ret.val.calories) <=> RLe(<<20, 18>>, ret.val.speed)
           ELSE NonNegative(ret.val.calories)

C10_Witness ==
    /\ ValidSample
    /\ obj.cls = "Running"
    /\ obj.action = R(0)
    /\ ret.op = "show_training_info"
    /\ ret.val.calories = R(-90)

====
